---- MODULE Spec2Model ----
(***************************************************************************)
(* Pricing normalisation, instance-catalog generation and workload         *)
(* quantisation of hybrid_exp (cloud_providers.py, hybrid.py).             *)
(*                                                                         *)
(* Text is modelled as a sequence of tokens, so that substring tests       *)
(* (str.contains) and f-string formatting are computed, not assumed.       *)
(* Prices are exact rationals <<numerator, denominator>>; a division       *)
(* multiplies the denominator, as the code divides step by step.           *)
(***************************************************************************)
EXTENDS Integers, Sequences, FiniteSets, TLC

VARIABLES
    pc,               \* position of the driver
    amazon_ec2_data,  \* the EC2 price table, a set of rows
    base,             \* the rows of the table loaded as ordinary offers
    excluded,         \* the rows of the table loaded as filtered-out offers
    prices,           \* outcome of get_amazon_ec2_prices
    simplified,       \* outcome of get_simplified_amazon_prices
    instance_names,   \* list of requested instance types
    region_names,     \* list of regions of create_ics
    args,             \* arguments of the call in progress
    region_i,         \* create_ics: index of the next region, 0 in a direct call
    name_i,           \* generate_amazon_region_instances: index of the next name
    region_data,      \* generate_amazon_region_instances: the items of region_data
    ics,              \* list of InstanceClass
    heap,             \* the LimitingSet objects constructed, by address
    outcome,          \* "none", "ok" or the exception raised
    perf_list,        \* get_quanta: per app, the performances of the instance classes
    quant_factor,     \* get_quanta: the quantization factor
    quanta,           \* the quanta get_quanta returns, or discretize_levels is given
    workloads,        \* discretize_levels: per app, the demand series
    quantized,        \* discretize_levels: per app, the quantized series
    files,            \* solve_problem: the series of workloads/hours/wl0.csv .. wl3.csv
    perfs_per_ecu,    \* solve_problem: performance per ECU, per app
    ltwp,             \* solve_problem: the Workload objects of the problem
    first_run         \* what an earlier call of generate_amazon_region_instances gave

priceVars == <<base, excluded, prices, simplified>>
catalogVars ==
    <<instance_names, region_names, args, region_i, name_i, region_data, ics, heap, outcome>>
quantVars == <<perf_list, quant_factor, quanta, workloads, quantized>>
solveVars == <<files, perfs_per_ecu, ltwp>>
vars == <<pc, amazon_ec2_data, priceVars, catalogVars, quantVars, solveVars, first_run>>

(***************************************************************************)
(* Bounds                                                                  *)
(***************************************************************************)
MaxRows == 2       \* ordinary rows of the table of the pricing driver, which
                   \* has one row more at most
MaxExcluded == 1   \* filtered-out rows of that table
MaxPrice == 2      \* prices of its rows are 1..MaxPrice
MaxZones == 2      \* availability_zones of a direct call is 0..MaxZones
MaxApps == 2       \* apps of a call of get_quanta or discretize_levels
MaxCells == 4      \* apps times values per app of such a call
MaxPerf == 4       \* performances are 1..MaxPerf
MaxFactor == 2     \* quant_factor is 0..MaxFactor
MaxDemand == 4     \* demand values are 0..MaxDemand
MaxQuantum == 3    \* quanta given to discretize_levels are 1..MaxQuantum
MaxSolveApps == 5  \* n_apps of solve_problem is 1..MaxSolveApps
MaxHours == 1      \* hours of a workload file that solve_problem keeps

(***************************************************************************)
(* Text                                                                    *)
(***************************************************************************)
\* pandas Series.str.contains(pat) for a literal pattern: pat occurs in s.
Contains(s, pat) ==
    \E i \in 0..(Len(s) - Len(pat)) : \A j \in 1..Len(pat) : s[i + j] = pat[j]

(***************************************************************************)
(* Exact arithmetic on prices                                              *)
(***************************************************************************)
Rat(n) == <<n, 1>>
RatDiv(a, k) == <<a[1], a[2] * k>>
RatAdd(a, b) == <<a[1] * b[2] + b[1] * a[2], a[2] * b[2]>>
RatEq(a, b) == a[1] * b[2] = b[1] * a[2]

(***************************************************************************)
(* Rows of the price table, as read_amazon_ec2_data returns them           *)
(***************************************************************************)
Linux == <<"Linux">>
Shared == "Shared"
NA == <<"N/A">>
AllUpfront == <<"All", "Upfront">>
Terms == {<<"No", NA>>, <<"1yr", AllUpfront>>, <<"3yr", AllUpfront>>}
Units == {"Hrs", "Quantity"}
PriceInstance == <<"c5", ".", "large">>
PriceRegions == {<<"EU", "(", "Ireland", ")">>, <<"EU", "(", "London", ")">>}

Offer(type, region, term, unit, price) ==
    [Type |-> type, Region |-> region, Price |-> price, OS |-> Linux,
     Unit |-> unit, Rsv |-> term[1], Popt |-> term[2], Tenancy |-> Shared,
     OfferingClass |-> "standard",
     Pdesc |-> <<"per", "Linux", "Instance", "Hour">>, Software |-> NA]

\* the 1-year all-upfront fee of the instance in one region
ReservedOffer ==
    Offer(PriceInstance, <<"EU", "(", "Ireland", ")">>, <<"1yr", AllUpfront>>, "Quantity", 1)

\* ways a row fails one filter of get_amazon_ec2_prices
Spoils == {"SQL", "NoUpfront", "PartialUpfront", "Unused", "Free",
           "Dedicated", "Convertible", "OtherType", "OtherOS"}

Spoil(r, how) ==
    CASE how = "SQL" -> [r EXCEPT !.Software = <<"SQL", "Web">>]
      [] how = "NoUpfront" -> [r EXCEPT !.Popt = <<"No", "Upfront">>]
      [] how = "PartialUpfront" -> [r EXCEPT !.Popt = <<"Partial", "Upfront">>]
      [] how = "Unused" ->
            [r EXCEPT !.Pdesc = <<"per", "Unused", "Reservation", "Linux", "Instance", "Hour">>]
      [] how = "Free" -> [r EXCEPT !.Price = 0]
      [] how = "Dedicated" -> [r EXCEPT !.Tenancy = "Dedicated"]
      [] how = "Convertible" -> [r EXCEPT !.OfferingClass = "convertible"]
      [] how = "OtherType" -> [r EXCEPT !.Type = <<"c5", ".", "xlarge">>]
      [] how = "OtherOS" -> [r EXCEPT !.OS = <<"Windows">>]

(***************************************************************************)
(* get_amazon_ec2_prices                                                   *)
(***************************************************************************)
KeepSQL(data) == data

SelectTypeOS(data, instance, os) ==
    {r \in data : r.Type = instance /\ Contains(r.OS, os)}
RemoveSQL(data) == 
    {r \in data : ~Contains(r.Software, <<"SQL">>)}
RemoveNoUpfront(data) == {r \in data : ~Contains(r.Popt, <<"No", "Upfront">>)}
RemovePartialUpfront(data) ==
    {r \in data : ~Contains(r.Popt, <<"Partial", "Upfront">>)}
RemoveUnused(data) == {r \in data : ~Contains(r.Pdesc, <<"Unused">>)}
RemoveNoPrice(data) == {r \in data : ~(r.Price = 0)}
OnlyShared(data) == {r \in data : r.Tenancy = "Shared"}
RemoveConvertible(data) == {r \in data : r.OfferingClass # "convertible"}

Filtered(data, instance, os) ==
    RemoveConvertible(OnlyShared(RemoveNoPrice(RemoveUnused(
        RemovePartialUpfront(RemoveNoUpfront(RemoveSQL(
            SelectTypeOS(data, instance, os))))))))

\* the index of a row before and after unstack(-1)
IndexKey(r) == <<r.Region, r.Tenancy, r.Rsv, r.Popt, r.Unit>>
GroupKey(r) == <<r.Region, r.Tenancy, r.Rsv, r.Popt>>

\* unstack(-1).fillna(0): the price of the group's row of that unit, 0 if none
Component(filtered, g, unit) ==
    IF \E r \in filtered : GroupKey(r) = g /\ r.Unit = unit
    THEN (CHOOSE r \in filtered : GroupKey(r) = g /\ r.Unit = unit).Price
    ELSE 0

\* slips of the price arithmetic and of the filters
Yr3PriceOverOneYear(hrs, quantity) ==
    RatAdd(Rat(hrs), RatDiv(RatDiv(Rat(quantity), 365), 24))

Yr1Price(hrs, quantity) == RatAdd(Rat(hrs), RatDiv(RatDiv(Rat(quantity), 365), 24))
Yr3Price(hrs, quantity) ==
    RatAdd(Rat(hrs), RatDiv(RatDiv(RatDiv(Rat(quantity), 365), 24), 3))
OnDemandPrice(hrs, quantity) == Rat(hrs)

PricePerHour(filtered, g) ==
    LET hrs == Component(filtered, g, "Hrs")
        quantity == Component(filtered, g, "Quantity")
    IN  CASE g[3] = "1yr" -> Yr1Price(hrs, quantity)
          [] g[3] = "3yr" -> Yr3Price(hrs, quantity)
          [] OTHER -> OnDemandPrice(hrs, quantity)

NoTable == [g \in {} |-> Rat(0)]

get_amazon_ec2_prices(data, instance, os) ==
    LET filtered == Filtered(data, instance, os)
        columns == {r.Unit : r \in filtered}
        groups == {GroupKey(r) : r \in filtered}
        kept == {g \in groups : g[3] \in {"1yr", "3yr", "No"}}
    IN  IF \E r1, r2 \in filtered : r1 # r2 /\ IndexKey(r1) = IndexKey(r2)
        THEN [status |-> "ValueError", table |-> NoTable]  \* unstack: duplicate entries
        ELSE IF ~({"Hrs", "Quantity"} \subseteq columns)
        THEN [status |-> "KeyError", table |-> NoTable]    \* no such column
        ELSE [status |-> "ok",
              table |-> [g \in kept |-> PricePerHour(filtered, g)]]

(***************************************************************************)
(* get_simplified_amazon_prices                                            *)
(***************************************************************************)
\* DataFrame.xs(key, level=(1,2,3)): a label that is in no row raises KeyError
XsRaises(table, key) ==
    \E l \in 1..3 : \A g \in DOMAIN table : g[l + 1] # key[l]

Xs(table, key) ==
    LET hit == {g \in DOMAIN table : \A l \in 1..3 : g[l + 1] = key[l]}
    IN  [region \in {g[1] : g \in hit} |->
            table[CHOOSE g \in hit : g[1] = region]]

NoSimplified == [status |-> "KeyError", on_demand |-> NoTable, reserved |-> NoTable]

get_simplified_amazon_prices(data, instance, os) ==
    LET p == get_amazon_ec2_prices(data, instance, os)
        od == <<"Shared", "No", NA>>
        rs == <<"Shared", "1yr", AllUpfront>>
    IN  IF p.status # "ok" THEN [NoSimplified EXCEPT !.status = p.status]
        ELSE IF XsRaises(p.table, od) \/ XsRaises(p.table, rs) THEN NoSimplified
        ELSE [status |-> "ok", on_demand |-> Xs(p.table, od),
              reserved |-> Xs(p.table, rs)]

(***************************************************************************)
(* Driver of the pricing operations                                        *)
(***************************************************************************)
NoPrices == [status |-> "none", table |-> NoTable]
NotSimplified == [NoSimplified EXCEPT !.status = "none"]

NoArgs ==
    [region_name |-> <<>>, max_inst_per_type |-> 0, max_inst_per_group |-> 0,
     availability_zones |-> 0]

NoRun == [outcome |-> "none", instance_names |-> <<>>, ics |-> <<>>]

CatalogIdle ==
    /\ first_run = NoRun
    /\ instance_names = <<>>
    /\ region_names = <<>>
    /\ args = NoArgs
    /\ region_i = 0
    /\ name_i = 0
    /\ region_data = <<>>
    /\ ics = <<>>
    /\ heap = <<>>
    /\ outcome = "none"

QuantIdle ==
    /\ perf_list = <<>>
    /\ quant_factor = 0
    /\ quanta = <<>>
    /\ workloads = <<>>
    /\ quantized = <<>>

SolveIdle ==
    /\ files = <<>>
    /\ perfs_per_ecu = <<>>
    /\ ltwp = <<>>

PriceIdle ==
    /\ base = {}
    /\ excluded = {}
    /\ prices = NoPrices
    /\ simplified = NotSimplified

Init ==
    /\ pc = "load"
    /\ amazon_ec2_data = {}
    /\ PriceIdle
    /\ CatalogIdle
    /\ QuantIdle
    /\ SolveIdle

\* read_amazon_ec2_data: one more row that is an ordinary offer
LoadRow ==
    /\ pc = "load"
    /\ Cardinality(base) < MaxRows
    /\ Cardinality(amazon_ec2_data) <= MaxRows
    /\ \E region \in PriceRegions, term \in Terms, unit \in Units, price \in 1..MaxPrice :
          LET r == Offer(PriceInstance, region, term, unit, price)
          IN  /\ r \notin base
              /\ base' = base \cup {r}
              /\ amazon_ec2_data' = amazon_ec2_data \cup {r}
    /\ UNCHANGED <<pc, excluded, prices, simplified, catalogVars, quantVars, solveVars, first_run>>

\* read_amazon_ec2_data: one more row that some filter rejects
LoadExcludedRow ==
    /\ pc = "load"
    /\ Cardinality(excluded) < MaxExcluded
    /\ Cardinality(amazon_ec2_data) <= MaxRows
    /\ \E how \in Spoils :
          LET r == Spoil(ReservedOffer, how)
          IN  /\ r \notin excluded
              /\ excluded' = excluded \cup {r}
              /\ amazon_ec2_data' = amazon_ec2_data \cup {r}
    /\ UNCHANGED <<pc, base, prices, simplified, catalogVars, quantVars, solveVars, first_run>>

CallPrices ==
    /\ pc = "load"
    /\ prices' = get_amazon_ec2_prices(amazon_ec2_data, PriceInstance, Linux)
    /\ pc' = "priced"
    /\ UNCHANGED <<amazon_ec2_data, base, excluded, simplified, catalogVars, quantVars, solveVars, first_run>>

CallSimplified ==
    /\ pc = "load"
    /\ simplified' = get_simplified_amazon_prices(amazon_ec2_data, PriceInstance, Linux)
    /\ pc' = "simplified"
    /\ UNCHANGED <<amazon_ec2_data, base, excluded, prices, catalogVars, quantVars, solveVars, first_run>>

Next == LoadRow \/ LoadExcludedRow \/ CallPrices \/ CallSimplified

Spec == Init /\ [][Next]_vars

(***************************************************************************)
(* Names and f-strings                                                     *)
(***************************************************************************)
\* the tokens of the names, in the order of their first characters
TokenOrder == <<"(", ")", ".", "0", "1", "2", "3", "4", "5", "6", "7", "8", "9",
                "AZ", "EU", "Ireland", "London", "_", "c5", "eu", "large">>
Rank(token) == CHOOSE i \in 1..Len(TokenOrder) : TokenOrder[i] = token

\* a < b for two strings
RECURSIVE StrLess(_, _)
StrLess(a, b) ==
    IF b = <<>> THEN FALSE
    ELSE IF a = <<>> THEN TRUE
    ELSE IF Head(a) = Head(b) THEN StrLess(Tail(a), Tail(b))
    ELSE Rank(Head(a)) < Rank(Head(b))

\* str(n) of a natural number
RECURSIVE Str(_)
Str(n) ==
    IF n < 10 THEN <<TokenOrder[n + 4]>>
    ELSE Str(n \div 10) \o <<TokenOrder[(n % 10) + 4]>>

\* f'{i}_{region_name}'
OnDemandId(i, region_name) == i \o <<"_">> \o region_name
\* f"{region_name}_AZ{z}"
ZoneId(region_name, z) == region_name \o <<"_", "AZ">> \o Str(z)
\* f'{i}_{region_name}_{zone.name}'
ReservedId(i, region_name, zone_name) ==
    i \o <<"_">> \o region_name \o <<"_">> \o zone_name

\* a slip: the names in the order given
Unsorted(l) == l

\* sorted(l)
RECURSIVE Sorted(_)
Sorted(l) ==
    IF l = <<>> THEN <<>>
    ELSE LET least == CHOOSE i \in 1..Len(l) :
                        /\ \A j \in 1..Len(l) : ~StrLess(l[j], l[i])
                        /\ \A j \in 1..(i - 1) : l[j] # l[i]
             rest == [j \in 1..(Len(l) - 1) |-> IF j < least THEN l[j] ELSE l[j + 1]]
         IN  <<l[least]>> \o Sorted(rest)

(***************************************************************************)
(* generate_amazon_region_instances                                        *)
(***************************************************************************)
None == <<>>

\* dict.get(key, None)
Get(mapping, key) == IF key \in DOMAIN mapping THEN mapping[key] ELSE None

LimitingSet(id, name, max_vms) == [id |-> id, name |-> name, max_vms |-> max_vms]

InstanceClass(id, name, limiting_sets, price, max_vms, is_reserved) ==
    [id |-> id, name |-> name, limiting_sets |-> limiting_sets, price |-> price,
     max_vms |-> max_vms, is_reserved |-> is_reserved, time_unit |-> "h"]

\* region_data[instance_name] = dict(...) on an OrderedDict, kept as the list
\* of its items: a new key goes last, an old key keeps its place
SetItem(region_data_, item) ==
    IF \E k \in 1..Len(region_data_) : region_data_[k].name = item.name
    THEN [k \in 1..Len(region_data_) |->
            IF region_data_[k].name = item.name THEN item ELSE region_data_[k]]
    ELSE Append(region_data_, item)

\* dict(on_demand = ..., reserved = ..., max_vms = ...) of one instance type
RegionItem(r, instance_name, region_name, max_inst_per_type) ==
    [name |-> instance_name,
     on_demand |-> Get(r.on_demand, region_name),
     reserved |-> Get(r.reserved, region_name),
     max_vms |-> max_inst_per_type]

\* slips: a limiting set of its own per on-demand entry; the region's
\* limiting set on a reserved entry
OnDemandSetsOfItsOwn(region, k) == <<region + k>>
ReservedSetsOfRegion(region, zone) == <<region>>

\* the limiting sets of the k-th on-demand entry, region being an address
OnDemandSets(region, k) == <<region>>
\* the limiting sets of a reserved entry, zone being an address
ReservedSets(region, zone) == <<zone>>
ReservedMaxVms == 0

OnDemandEntries(region_data_, region_name, region) ==
    LET offered == SelectSeq(region_data_, LAMBDA dat : ~(dat.on_demand = None))
    IN  [k \in 1..Len(offered) |->
            InstanceClass(OnDemandId(offered[k].name, region_name), offered[k].name,
                          OnDemandSets(region, k), offered[k].on_demand,
                          offered[k].max_vms, FALSE)]

\* the zones are the objects at addresses region + 1 .. region + zones
ReservedEntries(region_data_, region_name, region, zones) ==
    LET offered == SelectSeq(region_data_, LAMBDA dat : ~(dat.reserved = None))
    IN  [e \in 1..(Len(offered) * zones) |->
            LET dat == offered[((e - 1) \div zones) + 1]
                z == ((e - 1) % zones) + 1
            IN  InstanceClass(ReservedId(dat.name, region_name, ZoneId(region_name, z)),
                              dat.name, ReservedSets(region, region + z), dat.reserved,
                              ReservedMaxVms, TRUE)]

\* the objects the call constructs: the region's LimitingSet, then the zones'
NewLimitingSets(region_name, max_inst_per_group, zones) ==
    <<LimitingSet(region_name, region_name, max_inst_per_group)>> \o
    [z \in 1..zones |->
        LimitingSet(ZoneId(region_name, z), ZoneId(region_name, z), max_inst_per_group)]

\* the list the call returns, once region_data is complete
Instances(region_data_, region_name, region, availability_zones) ==
    OnDemandEntries(region_data_, region_name, region) \o
    ReservedEntries(region_data_, region_name, region, availability_zones)

(***************************************************************************)
(* remove_unneded_instances_ec2, create_ics                                *)
(***************************************************************************)
remove_unneded_instances_ec2(data) ==
    RemoveConvertible(OnlyShared(RemoveNoPrice(RemoveUnused(
        RemovePartialUpfront(RemoveNoUpfront(RemoveSQL(data)))))))

CreateIcsMaxInstPerType == 20
CreateIcsMaxInstPerGroup == 20
CreateIcsAvailabilityZones == 3

(***************************************************************************)
(* Driver of the catalog operations                                        *)
(***************************************************************************)
CatalogTypes == {<<"c5">>, <<"c5", "_", "eu">>}
CatalogRegions == {<<"eu">>, <<"eu", "_", "AZ", "1">>}
OnDemandTerm == <<"No", NA>>
ReservedTerm == <<"1yr", AllUpfront>>

\* the offers a price table of the catalog driver is drawn from: per type and
\* region an on-demand hourly price and a 1-year all-upfront fee
CatalogOffers ==
    {Offer(t, r, OnDemandTerm, "Hrs", 10 * Len(t) + Len(r)) :
        t \in CatalogTypes, r \in CatalogRegions} \cup
    {Offer(t, r, ReservedTerm, "Quantity", 8760 * (Len(t) + Len(r))) :
        t \in CatalogTypes, r \in CatalogRegions}

NameLists ==
    {<<>>} \cup {<<t>> : t \in CatalogTypes} \cup
    {<<t1, t2>> : t1 \in CatalogTypes, t2 \in CatalogTypes}
RegionLists ==
    {<<r>> : r \in CatalogRegions} \cup
    {l \in {<<r1, r2>> : r1 \in CatalogRegions, r2 \in CatalogRegions} : l[1] # l[2]}
PerTypeCaps == {5, 20}
PerGroupCaps == {20}

InitCatalog ==
    /\ pc = "start"
    /\ amazon_ec2_data \in SUBSET CatalogOffers
    /\ PriceIdle
    /\ CatalogIdle
    /\ QuantIdle
    /\ SolveIdle

\* a direct call of generate_amazon_region_instances begins
CallGenerate ==
    /\ pc = "start"
    /\ \E names \in NameLists, region_name \in CatalogRegions, zones \in 0..MaxZones,
          per_type \in PerTypeCaps, per_group \in PerGroupCaps :
          /\ instance_names' = names
          /\ args' = [region_name |-> region_name, max_inst_per_type |-> per_type,
                      max_inst_per_group |-> per_group, availability_zones |-> zones]
    /\ name_i' = 1
    /\ region_data' = <<>>
    /\ pc' = "prices"
    /\ UNCHANGED <<quantVars, solveVars, first_run>>
    /\ UNCHANGED <<amazon_ec2_data, priceVars, region_names, region_i, ics, heap, outcome>>

\* solve_problem filters the table and calls create_ics, which starts its list
StartCreateIcs ==
    /\ pc = "start"
    /\ \E names \in NameLists, regions \in RegionLists :
          /\ instance_names' = names
          /\ region_names' = regions
    /\ amazon_ec2_data' = remove_unneded_instances_ec2(amazon_ec2_data)
    /\ region_i' = 1
    /\ ics' = <<>>
    /\ pc' = "create_ics"
    /\ UNCHANGED <<quantVars, solveVars, first_run>>
    /\ UNCHANGED <<priceVars, args, name_i, region_data, heap, outcome>>

\* create_ics: the loop over region_names calls generate_amazon_region_instances
CreateIcsRegion ==
    /\ pc = "create_ics"
    /\ region_i <= Len(region_names)
    /\ args' = [region_name |-> region_names[region_i],
                max_inst_per_type |-> CreateIcsMaxInstPerType,
                max_inst_per_group |-> CreateIcsMaxInstPerGroup,
                availability_zones |-> CreateIcsAvailabilityZones]
    /\ name_i' = 1
    /\ region_data' = <<>>
    /\ pc' = "prices"
    /\ UNCHANGED <<quantVars, solveVars, first_run>>
    /\ UNCHANGED <<amazon_ec2_data, priceVars, instance_names, region_names, region_i,
                   ics, heap, outcome>>

\* generate_amazon_region_instances: one turn of the loop over
\* sorted(instance_names); an exception of the price lookup ends the call
\* and, in create_ics, the caller
GeneratePrices ==
    /\ pc = "prices"
    /\ name_i <= Len(instance_names)
    /\ \E instance_name \in {Sorted(instance_names)[name_i]} :
       \E r \in {get_simplified_amazon_prices(amazon_ec2_data, instance_name, Linux)} :
          IF r.status = "ok"
          THEN /\ region_data' = SetItem(region_data,
                    RegionItem(r, instance_name, args.region_name, args.max_inst_per_type))
               /\ name_i' = name_i + 1
               /\ UNCHANGED <<pc, outcome>>
          ELSE /\ pc' = "raised"
               /\ outcome' = r.status
               /\ UNCHANGED <<region_data, name_i>>
    /\ UNCHANGED <<quantVars, solveVars, first_run>>
    /\ UNCHANGED <<amazon_ec2_data, priceVars, instance_names, region_names, args,
                   region_i, ics, heap>>

\* generate_amazon_region_instances: the limiting sets and the entries; the
\* list is returned to the caller, and create_ics extends ics with it
GenerateInstances ==
    /\ pc = "prices"
    /\ name_i > Len(instance_names)
    /\ \E ins \in {Instances(region_data, args.region_name, Len(heap) + 1,
                              args.availability_zones)} :
          IF region_i = 0
          THEN /\ ics' = ins
               /\ pc' = "generated"
               /\ outcome' = "ok"
               /\ UNCHANGED region_i
          ELSE /\ ics' = ics \o ins
               /\ region_i' = region_i + 1
               /\ pc' = "create_ics"
               /\ UNCHANGED outcome
    /\ heap' = heap \o NewLimitingSets(args.region_name, args.max_inst_per_group,
                                       args.availability_zones)
    /\ UNCHANGED <<quantVars, solveVars, first_run>>
    /\ UNCHANGED <<amazon_ec2_data, priceVars, instance_names, region_names, args,
                   name_i, region_data>>

\* create_ics returns ics
CreateIcsReturn ==
    /\ pc = "create_ics"
    /\ region_i > Len(region_names)
    /\ pc' = "created"
    /\ outcome' = "ok"
    /\ UNCHANGED <<quantVars, solveVars, first_run>>
    /\ UNCHANGED <<amazon_ec2_data, priceVars, instance_names, region_names, args,
                   name_i, region_data, region_i, ics, heap>>

\* the entries as a caller reads them: every limiting set by its fields
Described(ics_, heap_) ==
    [k \in 1..Len(ics_) |->
        [ics_[k] EXCEPT !.limiting_sets =
            [n \in 1..Len(ics_[k].limiting_sets) |-> heap_[ics_[k].limiting_sets[n]]]]]

\* the lists with the elements of l in any order
Reorderings(l) ==
    {[i \in 1..Len(l) |-> l[p[i]]] :
        p \in {q \in [1..Len(l) -> 1..Len(l)] :
                  \A i, j \in 1..Len(l) : q[i] = q[j] => i = j}}

\* a direct call has returned or raised, and a second direct call begins: the
\* same table and parameters, the names in some order
CallGenerateAgain ==
    /\ pc \in {"generated", "raised"}
    /\ region_i = 0
    /\ first_run = NoRun
    /\ first_run' = [outcome |-> outcome, instance_names |-> instance_names,
                     ics |-> Described(ics, heap)]
    /\ \E names \in Reorderings(instance_names) : instance_names' = names
    /\ ics' = <<>>
    /\ outcome' = "none"
    /\ name_i' = 1
    /\ region_data' = <<>>
    /\ pc' = "prices"
    /\ UNCHANGED <<quantVars, solveVars>>
    /\ UNCHANGED <<amazon_ec2_data, priceVars, region_names, args, region_i, heap>>

NextCatalog ==
    \/ CallGenerate \/ GeneratePrices \/ GenerateInstances \/ CallGenerateAgain
    \/ StartCreateIcs \/ CreateIcsRegion \/ CreateIcsReturn

SpecCatalog == InitCatalog /\ [][NextCatalog]_vars

(***************************************************************************)
(* get_quanta                                                              *)
(***************************************************************************)
\* a slip: the smaller of the two instead of their greatest common divisor
GcdAsMin(a, b) == IF a < b THEN a ELSE b

\* math.gcd of two numbers that are not negative
RECURSIVE Euclid(_, _)
Euclid(a, b) == IF b = 0 THEN a ELSE Euclid(b, a % b)
gcd(a, b) == Euclid(a, b)

\* reduce(math.gcd, l) of a list that is not empty
RECURSIVE reduce_gcd(_)
reduce_gcd(l) ==
    IF Len(l) = 1 THEN l[1]
    ELSE gcd(reduce_gcd(SubSeq(l, 1, Len(l) - 1)), l[Len(l)])

\* a slip: reduce() given an initial value, so that an empty list yields 0
GetQuantaOfAny(perf_list_, quant_factor_) ==
    [status |-> "ok",
     quanta |-> [i \in DOMAIN perf_list_ |->
                   (IF perf_list_[i] = <<>> THEN 0 ELSE reduce_gcd(perf_list_[i]))
                       * quant_factor_]]

get_quanta(perf_list_, quant_factor_) ==
    IF \E i \in DOMAIN perf_list_ : perf_list_[i] = <<>>
    THEN [status |-> "TypeError", quanta |-> <<>>]   \* reduce() of empty sequence
    ELSE [status |-> "ok",
          quanta |-> [i \in DOMAIN perf_list_ |->
                        reduce_gcd(perf_list_[i]) * quant_factor_]]

(***************************************************************************)
(* discretize_levels                                                       *)
(***************************************************************************)
\* max(workload)
Max(workload) ==
    CHOOSE m \in {workload[t] : t \in DOMAIN workload} :
        \A t \in DOMAIN workload : workload[t] <= m

\* list(range(0, stop, step)) for stop > 0 and step > 0
Range0(stop, step) == [k \in 1..((stop + step - 1) \div step) |-> (k - 1) * step]

\* a slip: np.digitize with right=False, bins[i-1] <= x < bins[i]
DigitizeLeft(x, bins) == Cardinality({k \in DOMAIN bins : bins[k] <= x})

\* np.digitize(x, bins, right=True) for increasing bins: the i with
\* bins[i-1] < x <= bins[i], counted from 0
Digitize(x, bins) == Cardinality({k \in DOMAIN bins : bins[k] < x})

\* np.take(levels, indices), indices counted from 0
Take(levels, indices) == [t \in DOMAIN indices |-> levels[indices[t] + 1]]

Quantize(workload, quantum) ==
    LET levels == Range0(Max(workload) + quantum, quantum)
    IN  Take(levels, [t \in DOMAIN workload |-> Digitize(workload[t], levels)])

\* what quantizing one series raises: max() of an empty series or range()
\* with step 0 (ValueError), np.take out of bounds (IndexError)
SeriesError(workload, quantum) ==
    IF workload = <<>> \/ quantum = 0 THEN "ValueError"
    ELSE LET levels == Range0(Max(workload) + quantum, quantum)
         IN  IF \E t \in DOMAIN workload : Digitize(workload[t], levels) >= Len(levels)
             THEN "IndexError"
             ELSE "ok"

discretize_levels(workloads_, quanta_) ==
    IF Len(workloads_) # Len(quanta_)
    THEN [status |-> "AssertionError", quantized |-> <<>>]
    ELSE LET failing == {j \in DOMAIN workloads_ :
                            SeriesError(workloads_[j], quanta_[j]) # "ok"}
         IN  IF failing # {}
             THEN LET first == CHOOSE j \in failing : \A k \in failing : j <= k
                  IN  [status |-> SeriesError(workloads_[first], quanta_[first]),
                       quantized |-> <<>>]
             ELSE [status |-> "ok",
                   quantized |-> [j \in DOMAIN workloads_ |->
                                    Quantize(workloads_[j], quanta_[j])]]

(***************************************************************************)
(* Driver of the quantization operations                                   *)
(***************************************************************************)
\* lists of n lists of m values each
Tables(n, m, values) == [1..n -> [1..m -> values]]

\* lists of lists of values, the k-th of length lens[k]
RECURSIVE Ragged(_, _)
Ragged(lens, values) ==
    IF lens = <<>> THEN {<<>>}
    ELSE {<<h>> \o t : h \in [1..Head(lens) -> values], t \in Ragged(Tail(lens), values)}

RECURSIVE Sum(_)
Sum(l) == IF l = <<>> THEN 0 ELSE Head(l) + Sum(Tail(l))

InitQuant ==
    /\ pc = "start"
    /\ amazon_ec2_data = {}
    /\ PriceIdle
    /\ CatalogIdle
    /\ QuantIdle
    /\ SolveIdle

\* one call of get_quanta: every app has a list of performances, of any
\* length
CallGetQuanta ==
    /\ pc = "start"
    /\ \E n \in 1..MaxApps, factor \in 0..MaxFactor :
       \E lens \in [1..n -> 0..MaxCells] :
          /\ Sum(lens) <= MaxCells
          /\ \E perfs \in Ragged(lens, 1..MaxPerf) :
             \E r \in {get_quanta(perfs, factor)} :
                /\ perf_list' = perfs
                /\ quant_factor' = factor
                /\ quanta' = r.quanta
                /\ outcome' = r.status
    /\ pc' = "quanta"
    /\ UNCHANGED <<amazon_ec2_data, priceVars, instance_names, region_names, args,
                   region_i, name_i, region_data, ics, heap, workloads, quantized>>
    /\ UNCHANGED <<solveVars, first_run>>

\* one call of discretize_levels: every series has the same number of hours
CallDiscretize ==
    /\ pc = "start"
    /\ \E n \in 1..MaxApps, hours \in 1..MaxCells, nq \in 1..MaxApps :
          /\ n * hours <= MaxCells
          /\ \E wls \in Tables(n, hours, 0..MaxDemand), qs \in [1..nq -> 1..MaxQuantum] :
             \E r \in {discretize_levels(wls, qs)} :
                /\ workloads' = wls
                /\ quanta' = qs
                /\ quantized' = r.quantized
                /\ outcome' = r.status
    /\ pc' = "discretized"
    /\ UNCHANGED <<amazon_ec2_data, priceVars, instance_names, region_names, args,
                   region_i, name_i, region_data, ics, heap, perf_list, quant_factor>>
    /\ UNCHANGED <<solveVars, first_run>>

NextQuant == CallGetQuanta \/ CallDiscretize

SpecQuant == InitQuant /\ [][NextQuant]_vars

(***************************************************************************)
(* solve_problem, up to the construction of the Workload objects           *)
(***************************************************************************)
N_AVAILABLE_WLS == 4
\* 24*365 hours in the source; the model keeps MaxHours hours of each file
WL_LEN == MaxHours

\* math.ceil(a / b) for a >= 0 and b > 0
Ceil(a, b) == (a + b - 1) \div b

\* l * k for a list l
Repeat(l, k) == [i \in 1..(Len(l) * k) |-> l[((i - 1) % Len(l)) + 1]]

\* l[:n] and l[n:] for n >= 0
Prefix(l, n) == SubSeq(l, 1, IF n < Len(l) THEN n ELSE Len(l))
Suffix(l, n) == SubSeq(l, (IF n < Len(l) THEN n ELSE Len(l)) + 1, Len(l))

\* a slip: the list as it is, whatever the first element asked for
NotReordered(l, first_element) == l

reordered_list(l, first_element) == Suffix(l, first_element) \o Prefix(l, first_element)

\* malloovia.App(f'a{i}', name=f'{i}') and the Workload built for it
App(i) == [id |-> <<"a">> \o Str(i), name |-> Str(i)]
Workload(app, values) ==
    [id |-> <<"ltwp_">> \o app.id, description |-> <<"rph for ">> \o app.name,
     app |-> app, time_unit |-> "h", values |-> values]

\* zip(a, b), as a list of pairs
Zip(a, b) == [k \in 1..(IF Len(a) < Len(b) THEN Len(a) ELSE Len(b)) |-> <<a[k], b[k]>>]

\* the instance classes of the private cloud
Priv(priv_cost, priv_n) == InstanceClass(<<"priv">>, <<"priv">>, <<>>, priv_cost, priv_n, TRUE)
PrivPrev(priv_prev_n) ==
    InstanceClass(<<"priv_prev">>, <<"priv_prev">>, <<>>, <<1, 1000000>>, priv_prev_n, TRUE)

\* get_perfs: the ECUs of an instance class, read from the ECU column of the
\* rows of its type; ecu_column maps the types whose cell is a number, any
\* other type takes the except branch
Ecus(ecu_column, ic, priv_ecus) ==
    IF ic.name \in DOMAIN ecu_column THEN ecu_column[ic.name] ELSE priv_ecus

\* get_perfs: perf_dict, by position of the instance class and of the app
get_perfs(ecu_column, ics_, apps, perf_factor, perfs_per_ecu_, priv_ecus) ==
    [i \in 1..Len(ics_) |->
        LET pairs == Zip(apps, perfs_per_ecu_)
        IN  [j \in 1..Len(pairs) |->
                pairs[j][2] * Ecus(ecu_column, ics_[i], priv_ecus) * perf_factor]]

\* a slip: discretizing whatever the factor
DiscretizesAlways(quant_factor_) == TRUE

\* the test of line 208
Discretizes(quant_factor_) == quant_factor_ # 0

(***************************************************************************)
(* Driver of solve_problem                                                 *)
(***************************************************************************)
\* what create_ics returned, and the ECU column of the table
SolveTypes == {<<"c5">>}
SolveWorlds ==
    { [ics |-> <<>>, ecu_column |-> [t \in {} |-> 0]],
      [ics |-> <<InstanceClass(OnDemandId(<<"c5">>, <<"eu">>), <<"c5">>, <<1>>,
                               <<1, 10>>, CreateIcsMaxInstPerType, FALSE)>>,
       ecu_column |-> [t \in SolveTypes |-> 2]] }
PerfFactors == {1, 2}
PrivEcus == {3}
PrivPrevN == {0, 1}
\* demands of the hours kept, and of the hours after WL_LEN
Loads == {0, 700}
LoadsBeyond == {700}

InitSolve ==
    /\ pc = "start"
    /\ amazon_ec2_data = {}
    /\ PriceIdle
    /\ CatalogIdle
    /\ QuantIdle
    /\ SolveIdle

\* solve_problem, lines 143-191: the instance classes, the apps, the
\* performances per ECU and the performance list of every app
SolveApps ==
    /\ pc = "start"
    /\ \E n_apps \in 1..MaxSolveApps, first_app \in 0..(N_AVAILABLE_WLS - 1),
          factor \in 0..MaxFactor, perf_factor \in PerfFactors, world \in SolveWorlds,
          priv_ecus \in PrivEcus, priv_prev_n \in PrivPrevN :
          \E factor_repeat \in {Ceil(n_apps, N_AVAILABLE_WLS)} :
          \E all_ics \in {world.ics \o <<Priv(<<1, 100>>, 1)>> \o
                          (IF priv_prev_n > 0 THEN <<PrivPrev(priv_prev_n)>> ELSE <<>>)} :
          \E apps \in {[i \in 1..n_apps |-> App(i - 1)]} :
          \E ppe \in {reordered_list(Repeat(<<1000, 500, 2000, 300>>, factor_repeat),
                                     first_app)} :
          \E perfs \in {get_perfs(world.ecu_column, all_ics, apps, perf_factor, ppe,
                                  priv_ecus)} :
             /\ args' = [n_apps |-> n_apps, first_app |-> first_app,
                         quant_factor |-> factor, perf_factor |-> perf_factor,
                         priv_ecus |-> priv_ecus, priv_prev_n |-> priv_prev_n,
                         ecu_column |-> world.ecu_column,
                         factor_repeat |-> factor_repeat, apps |-> apps]
             /\ ics' = all_ics
             /\ perfs_per_ecu' = ppe
             /\ perf_list' = [a \in 1..n_apps |-> [i \in 1..Len(all_ics) |-> perfs[i][a]]]
             /\ quant_factor' = factor
    /\ pc' = "solve_perfs"
    /\ UNCHANGED <<amazon_ec2_data, priceVars, instance_names, region_names, region_i,
                   name_i, region_data, heap, outcome, quanta, workloads, quantized,
                   files, ltwp, first_run>>

\* solve_problem, line 193
SolveQuanta ==
    /\ pc = "solve_perfs"
    /\ \E r \in {get_quanta(perf_list, args.quant_factor)} :
          IF r.status = "ok"
          THEN /\ quanta' = r.quanta
               /\ pc' = "solve_quanta"
               /\ UNCHANGED outcome
          ELSE /\ outcome' = r.status
               /\ pc' = "raised"
               /\ UNCHANGED quanta
    /\ UNCHANGED <<amazon_ec2_data, priceVars, instance_names, region_names, args,
                   region_i, name_i, region_data, ics, heap, perf_list, quant_factor,
                   workloads, quantized, solveVars, first_run>>

\* solve_problem, lines 196-206: the four files, of one row each, are read,
\* cut to WL_LEN hours, reordered, repeated and cut to n_apps series
SolveWorkloads ==
    /\ pc = "solve_quanta"
    /\ \E extra \in 0..1 :
       \E read \in [1..N_AVAILABLE_WLS ->
                      {kept \o beyond : kept \in [1..WL_LEN -> Loads],
                                        beyond \in [1..extra -> LoadsBeyond]}] :
       \E wls \in {[i \in 1..N_AVAILABLE_WLS |-> Prefix(read[i], WL_LEN)]} :
          /\ files' = read
          /\ workloads' = Prefix(Repeat(reordered_list(wls, args.first_app),
                                        args.factor_repeat), args.n_apps)
    /\ pc' = "solve_wls"
    /\ UNCHANGED <<amazon_ec2_data, priceVars, catalogVars, perf_list, quant_factor,
                   quanta, quantized, perfs_per_ecu, ltwp, first_run>>

\* solve_problem, lines 208-224: the series are discretized unless the factor
\* is zero, and every app gets its Workload
SolveLtwp ==
    /\ pc = "solve_wls"
    /\ IF Discretizes(args.quant_factor)
       THEN \E r \in {discretize_levels(workloads, quanta)} :
               IF r.status = "ok"
               THEN /\ quantized' = r.quantized
                    /\ ltwp' = [k \in 1..Len(Zip(args.apps, Repeat(r.quantized, args.factor_repeat))) |->
                                  Workload(args.apps[k],
                                           Repeat(r.quantized, args.factor_repeat)[k])]
                    /\ outcome' = "ok"
                    /\ pc' = "solve_ltwp"
               ELSE /\ outcome' = r.status
                    /\ pc' = "raised"
                    /\ UNCHANGED <<quantized, ltwp>>
       ELSE /\ ltwp' = [k \in 1..Len(Zip(args.apps, Repeat(workloads, args.factor_repeat))) |->
                          Workload(args.apps[k], Repeat(workloads, args.factor_repeat)[k])]
            /\ outcome' = "ok"
            /\ pc' = "solve_ltwp"
            /\ UNCHANGED quantized
    /\ UNCHANGED <<amazon_ec2_data, priceVars, instance_names, region_names, args,
                   region_i, name_i, region_data, ics, heap, perf_list, quant_factor,
                   quanta, workloads, files, perfs_per_ecu, first_run>>

NextSolve == SolveApps \/ SolveQuanta \/ SolveWorkloads \/ SolveLtwp

SpecSolve == InitSolve /\ [][NextSolve]_vars

(***************************************************************************)
(* Properties of the pricing operations (specification Spec)               *)
(***************************************************************************)
Survivors == Filtered(amazon_ec2_data, PriceInstance, Linux)

\* the price of the row of that unit in group g, zero when the group has none
RowPrice(g, unit) ==
    LET rows == {r \in Survivors : GroupKey(r) = g /\ r.Unit = unit}
    IN  IF rows = {} THEN 0 ELSE (CHOOSE r \in rows : TRUE).Price

\* C1: every group of surviving rows with hourly component H and upfront
\* component U is priced H + U/8760 for term 1yr, H + U/26280 for term 3yr
\* and H for term No; a table that has a group with both an Hrs row and a
\* Quantity row, and one row per index key, is priced without an exception.
C1_PricePerHour ==
    pc = "priced" =>
        /\ prices.status = "ok" =>
              \A r \in Survivors :
                  LET g == GroupKey(r)
                      H == RowPrice(g, "Hrs")
                      U == RowPrice(g, "Quantity")
                  IN  /\ g \in DOMAIN prices.table
                      /\ g[3] = "1yr" => RatEq(prices.table[g], <<H * 8760 + U, 8760>>)
                      /\ g[3] = "3yr" => RatEq(prices.table[g], <<H * 26280 + U, 26280>>)
                      /\ g[3] = "No" => RatEq(prices.table[g], <<H, 1>>)
        /\ ( /\ \E r1, r2 \in Survivors :
                    GroupKey(r1) = GroupKey(r2) /\ r1.Unit = "Hrs" /\ r2.Unit = "Quantity"
              /\ \A r3, r4 \in Survivors : IndexKey(r3) = IndexKey(r4) => r3 = r4 )
           => prices.status = "ok"

\* a returned table with a 3-year group that has an upfront fee
C1_Witness ==
    /\ pc = "priced" /\ prices.status = "ok"
    /\ \E r \in Survivors : r.Rsv = "3yr" /\ r.Unit = "Quantity"

\* C2: adding rows that a filter rejects (SQL software, No/Partial Upfront,
\* Unused, zero price, tenancy other than Shared, convertible, another type
\* or OS) leaves the outcome of get_amazon_ec2_prices as it is for the table
\* without them: same keys, same prices, same exception; so does filtering
\* the table with remove_unneded_instances_ec2 beforehand.
C2_ExclusionIsAbsolute ==
    pc = "priced" =>
        /\ prices = get_amazon_ec2_prices(base, PriceInstance, Linux)
        /\ prices = get_amazon_ec2_prices(remove_unneded_instances_ec2(amazon_ec2_data),
                                          PriceInstance, Linux)

C2_Witness ==
    /\ pc = "priced" /\ prices.status = "ok"
    /\ excluded # {}
    /\ \E r \in base : GroupKey(r) = GroupKey(ReservedOffer)

\* C3 (as claimed): when the surviving rows are one on-demand hourly row of
\* price P, get_amazon_ec2_prices returns P for the on-demand key and no
\* reserved key, without an error.
C3_MissingComponentIsZero ==
    \A r \in Survivors :
        (pc = "priced" /\ Survivors = {r} /\ r.Rsv = "No" /\ r.Unit = "Hrs") =>
            /\ prices.status = "ok"
            /\ DOMAIN prices.table = {GroupKey(r)}
            /\ RatEq(prices.table[GroupKey(r)], <<r.Price, 1>>)

\* C4 (as claimed): whenever the full price table of a type can be computed,
\* get_simplified_amazon_prices returns its two region->price mappings
\* without raising, a region without the offer being no key of the mapping.
C4_MissingOfferIsAbsence ==
    (pc = "simplified"
        /\ get_amazon_ec2_prices(amazon_ec2_data, PriceInstance, Linux).status = "ok") =>
        /\ simplified.status = "ok"
        /\ \A region \in PriceRegions :
              /\ region \in DOMAIN simplified.on_demand <=>
                    \E r \in Survivors : r.Region = region /\ r.Rsv = "No" /\ r.Popt = NA
              /\ region \in DOMAIN simplified.reserved <=>
                    \E r \in Survivors :
                        r.Region = region /\ r.Rsv = "1yr" /\ r.Popt = AllUpfront
(***************************************************************************)
(* Properties of the catalog (specification SpecCatalog)                   *)
(***************************************************************************)
Requested == {instance_names[i] : i \in DOMAIN instance_names}
Entries == DOMAIN ics
OnDemandOnes == {i \in Entries : ~ics[i].is_reserved}
ReservedOnes == {i \in Entries : ics[i].is_reserved}

\* the simplified prices of a type in the region of the call
OfferedOnDemand(t) ==
    Get(get_simplified_amazon_prices(amazon_ec2_data, t, Linux).on_demand,
        args.region_name)
OfferedReserved(t) ==
    Get(get_simplified_amazon_prices(amazon_ec2_data, t, Linux).reserved,
        args.region_name)

\* C5: the catalog a call returns has exactly one on-demand entry per
\* distinct requested type with an on-demand price in the region; each has
\* is_reserved false, that price, local maximum max_inst_per_type and one
\* limiting set, the same object for all of them, whose cap is the region cap.
C5_OnDemandEntries ==
    pc = "generated" =>
        /\ \A t \in Requested :
              Cardinality({i \in OnDemandOnes : ics[i].name = t}) =
                  IF OfferedOnDemand(t) = None THEN 0 ELSE 1
        /\ \A i \in OnDemandOnes :
              /\ ics[i].name \in Requested
              /\ ics[i].price = OfferedOnDemand(ics[i].name)
              /\ ics[i].max_vms = args.max_inst_per_type
              /\ Len(ics[i].limiting_sets) = 1
              /\ \A j \in OnDemandOnes : ics[j].limiting_sets = ics[i].limiting_sets
              /\ ics[i].limiting_sets[1] \in DOMAIN heap
              /\ heap[ics[i].limiting_sets[1]].id = args.region_name
              /\ heap[ics[i].limiting_sets[1]].max_vms = args.max_inst_per_group

\* a returned catalog with two on-demand entries
C5_Witness ==
    /\ pc = "generated"
    /\ Cardinality(OnDemandOnes) = 2
    /\ args.availability_zones > 0

\* C6: the catalog a call with Z zones returns has exactly one reserved entry
\* per (requested type with a reserved price in the region, zone); each has
\* is_reserved true, that price, local maximum 0 and one limiting set, the
\* object of its zone, whose cap is max_inst_per_group; the zones' objects
\* differ, and none is a limiting set of an on-demand entry.
C6_ReservedEntries ==
    pc = "generated" =>
        /\ \A t \in Requested : \A z \in 1..args.availability_zones :
              Cardinality({i \in ReservedOnes :
                    /\ ics[i].name = t
                    /\ ics[i].limiting_sets[1] \in DOMAIN heap
                    /\ heap[ics[i].limiting_sets[1]].id = ZoneId(args.region_name, z)}) =
                  IF OfferedReserved(t) = None THEN 0 ELSE 1
        /\ \A i \in ReservedOnes :
              /\ ics[i].name \in Requested
              /\ ics[i].price = OfferedReserved(ics[i].name)
              /\ ics[i].max_vms = 0
              /\ Len(ics[i].limiting_sets) = 1
              /\ ics[i].limiting_sets[1] \in DOMAIN heap
              /\ heap[ics[i].limiting_sets[1]].max_vms = args.max_inst_per_group
              /\ \E z \in 1..args.availability_zones :
                    heap[ics[i].limiting_sets[1]].id = ZoneId(args.region_name, z)
              /\ \A j \in OnDemandOnes :
                    ics[j].limiting_sets[1] # ics[i].limiting_sets[1]
        /\ Cardinality(ReservedOnes) =
              args.availability_zones *
                  Cardinality({t \in Requested : OfferedReserved(t) # None})

\* a returned catalog with reserved entries in two zones beside an on-demand entry
C6_Witness ==
    /\ pc = "generated"
    /\ args.availability_zones = 2
    /\ Cardinality(ReservedOnes) = 4
    /\ OnDemandOnes # {}

\* C7 (as claimed): no two entries of the catalog of one call, or of the
\* catalog create_ics builds over distinct regions, share an id.
C7_IdsDistinct ==
    pc \in {"generated", "created"} =>
        \A i, j \in Entries : ics[i].id = ics[j].id => i = j

\* C8 (as claimed): in the catalog create_ics builds over distinct regions,
\* two entries whose limiting sets have the same id have the same object.
C8_ConstraintIdsDistinct ==
    pc = "created" =>
        \A i, j \in Entries :
            heap[ics[i].limiting_sets[1]].id = heap[ics[j].limiting_sets[1]].id =>
                ics[i].limiting_sets[1] = ics[j].limiting_sets[1]
(***************************************************************************)
(* Properties of the quantization (specification SpecQuant)                *)
(***************************************************************************)
Apps == DOMAIN perf_list

\* C9 (as claimed): for every quantization factor >= 1 the quantum of an app
\* divides every performance value of the app.
C9_QuantumDivides ==
    (pc = "quanta" /\ outcome = "ok" /\ quant_factor >= 1) =>
        \A i \in Apps : \A k \in DOMAIN perf_list[i] : perf_list[i][k] % quanta[i] = 0

\* C9 (amended): the quantum of an app is quant_factor times the greatest
\* number that divides every performance value of the app, so it divides
\* them all when quant_factor = 1.
C9_QuantumIsScaledGcd ==
    (pc = "quanta" /\ outcome = "ok" /\ quant_factor >= 1) =>
        \A i \in Apps :
            \E g \in 1..MaxPerf :
                /\ quanta[i] = g * quant_factor
                /\ \A k \in DOMAIN perf_list[i] : perf_list[i][k] % g = 0
                /\ \A d \in 1..MaxPerf :
                      (\A k \in DOMAIN perf_list[i] : perf_list[i][k] % d = 0) => d <= g
                /\ quant_factor = 1 =>
                      \A k \in DOMAIN perf_list[i] : perf_list[i][k] % quanta[i] = 0

\* quanta of an app with several performances, whose greatest common divisor
\* is neither 1 nor all of them
C9_Witness ==
    /\ pc = "quanta" /\ outcome = "ok" /\ quant_factor = 1
    /\ \E i \in Apps :
          /\ Len(perf_list[i]) >= 2
          /\ quanta[i] > 1
          /\ \E k \in DOMAIN perf_list[i] : quanta[i] < perf_list[i][k]

\* C10: given as many quanta >= 1 as series, discretize_levels returns, per
\* app, a series of the same length whose values are the smallest multiples
\* of the app's quantum that are >= the demand values.
C10_RoundsUp ==
    (pc = "discretized" /\ Len(workloads) = Len(quanta)) =>
        /\ outcome = "ok"
        /\ Len(quantized) = Len(workloads)
        /\ \A j \in DOMAIN workloads :
              /\ Len(quantized[j]) = Len(workloads[j])
              /\ \A t \in DOMAIN workloads[j] :
                    /\ quantized[j][t] >= 0
                    /\ quantized[j][t] % quanta[j] = 0
                    /\ quantized[j][t] >= workloads[j][t]
                    /\ quantized[j][t] - workloads[j][t] < quanta[j]

\* the series [0, 1, 2, 3] with quantum 2 becomes [0, 2, 2, 4]
C10_Witness ==
    /\ pc = "discretized" /\ outcome = "ok"
    /\ workloads = <<<<0, 1, 2, 3>>>>
    /\ quanta = <<2>>
    /\ quantized = <<<<0, 2, 2, 4>>>>

(***************************************************************************)
(* Properties of solve_problem (specification SpecSolve)                   *)
(***************************************************************************)
\* the file that the j-th app (counted from 1) is to be given, cut to WL_LEN
RawSeries(j) == Prefix(files[((args.first_app + j - 1) % N_AVAILABLE_WLS) + 1], WL_LEN)

\* C11: with quant_factor = 0 the quantum computation raises nothing, the
\* series are not discretized, and the Workload of every app holds the raw
\* series of its file, rotated by first_app and cut to WL_LEN hours, value
\* for value.
C11_ZeroFactorIsNoOp ==
    (quant_factor = 0 /\ pc \in {"solve_quanta", "solve_wls", "solve_ltwp", "raised"}) =>
        /\ pc # "raised"
        /\ quantized = <<>>
        /\ pc = "solve_ltwp" =>
              /\ outcome = "ok"
              /\ Len(ltwp) = args.n_apps
              /\ \A j \in 1..args.n_apps :
                    /\ ltwp[j].app = App(j - 1)
                    /\ ltwp[j].values = RawSeries(j)

\* five apps starting at the third file, the files being longer than WL_LEN
\* and not all alike
C11_Witness ==
    /\ pc = "solve_ltwp" /\ quant_factor = 0
    /\ args.n_apps = 5 /\ args.first_app = 2
    /\ Len(files[1]) > WL_LEN
    /\ files[3] # files[4]

(***************************************************************************)
(* Properties of the shapes (specification SpecQuant)                      *)
(***************************************************************************)
\* C12: discretize_levels given a number of series that differs from the
\* number of quanta raises AssertionError and returns no series; get_quanta
\* given some empty performance list raises and returns no quantum.
C12_ShapeMismatchIsFatal ==
    /\ (pc = "discretized" /\ Len(workloads) # Len(quanta)) =>
          (outcome = "AssertionError" /\ quantized = <<>>)
    /\ (pc = "quanta" /\ \E i \in DOMAIN perf_list : perf_list[i] = <<>>) =>
          (outcome = "TypeError" /\ quanta = <<>>)

\* two series and one quantum that would suit the first series
C12_Witness ==
    /\ pc = "discretized"
    /\ Len(workloads) = 2 /\ Len(quanta) = 1
    /\ SeriesError(workloads[1], quanta[1]) = "ok"
    /\ outcome = "AssertionError"

(***************************************************************************)
(* Properties of repeated calls (specification SpecCatalog)                *)
(***************************************************************************)
\* the number of the availability zone of a reserved entry
ZoneOf(e) ==
    CHOOSE z \in 1..args.availability_zones :
        heap[e.limiting_sets[1]].id = ZoneId(args.region_name, z)

\* C13: a second call of generate_amazon_region_instances on the same table
\* and parameters, with the names in the same or in another order, ends as
\* the first did and returns the same entries in the same positions, the
\* constraints compared by their fields; the on-demand entries come first,
\* in ascending order of type, then the reserved ones, in ascending order of
\* type and, within a type, of zone number.
C13_DeterministicCatalog ==
    /\ (pc \in {"generated", "raised"} /\ region_i = 0 /\ first_run # NoRun) =>
          /\ outcome = first_run.outcome
          /\ Described(ics, heap) = first_run.ics
    /\ pc = "generated" =>
          \A a, b \in 1..Len(ics) :
              a < b =>
                  /\ ics[a].is_reserved => ics[b].is_reserved
                  /\ (~ics[a].is_reserved /\ ~ics[b].is_reserved) =>
                        StrLess(ics[a].name, ics[b].name)
                  /\ (ics[a].is_reserved /\ ics[b].is_reserved) =>
                        \/ StrLess(ics[a].name, ics[b].name)
                        \/ ics[a].name = ics[b].name /\ ZoneOf(ics[a]) < ZoneOf(ics[b])

\* two types offered both ways in a region of two zones, asked for in one
\* order and then in the other
C13_Witness ==
    /\ pc = "generated"
    /\ first_run.outcome = "ok"
    /\ Len(instance_names) = 2
    /\ first_run.instance_names = <<instance_names[2], instance_names[1]>>
    /\ instance_names[1] # instance_names[2]
    /\ args.availability_zones = 2
    /\ Len(ics) = 6

(***************************************************************************)
(* Properties of the rotation (specification SpecSolve)                    *)
(***************************************************************************)
\* the place, counted from 1, that the j-th app (counted from 1) is to have
\* in [1000, 500, 2000, 300] and among the workload files
BaseIndex(j) == ((args.first_app + j - 1) % N_AVAILABLE_WLS) + 1

\* C14: for n_apps >= 1 and 0 <= first_app < 4, app j has the performance
\* per ECU at place (first_app + j) mod 4 of [1000, 500, 2000, 300] in every
\* performance of its list, the workload of the file at that same place, and
\* a Workload discretized with the quantum computed from its own list.
C14_RotationKeepsAligned ==
    pc \in {"solve_perfs", "solve_quanta", "solve_wls", "solve_ltwp"} =>
        \A j \in 1..args.n_apps :
            /\ perfs_per_ecu[j] = <<1000, 500, 2000, 300>>[BaseIndex(j)]
            /\ Len(perf_list[j]) = Len(ics)
            /\ \A i \in 1..Len(ics) :
                  perf_list[j][i] =
                      <<1000, 500, 2000, 300>>[BaseIndex(j)]
                          * Ecus(args.ecu_column, ics[i], args.priv_ecus) * args.perf_factor
            /\ pc \in {"solve_wls", "solve_ltwp"} => workloads[j] = RawSeries(j)
            /\ (pc \in {"solve_quanta", "solve_wls", "solve_ltwp"}) =>
                  quanta[j] = reduce_gcd(perf_list[j]) * quant_factor
            /\ (pc = "solve_ltwp" /\ quant_factor # 0) =>
                  /\ ltwp[j].app = App(j - 1)
                  /\ Len(ltwp[j].values) = Len(RawSeries(j))
                  /\ \A t \in DOMAIN ltwp[j].values :
                        /\ ltwp[j].values[t] % quanta[j] = 0
                        /\ ltwp[j].values[t] >= RawSeries(j)[t]
                        /\ ltwp[j].values[t] - RawSeries(j)[t] < quanta[j]

\* five apps starting at the fourth file, so that the fifth app shares the
\* place of the first, with a demand that is rounded up
C14_Witness ==
    /\ pc = "solve_ltwp" /\ quant_factor = 2
    /\ args.n_apps = 5 /\ args.first_app = 3
    /\ files[4] # files[1]
    /\ ltwp[1].values = ltwp[5].values
    /\ \E j \in 1..5 : \E t \in DOMAIN ltwp[j].values :
          ltwp[j].values[t] > RawSeries(j)[t]
====
